---- MODULE Spec2Model ----
(***************************************************************************)
(* A model of weather.py: the command line driver main, the two            *)
(* operations of WeatherClient (get_current_weather, get_forecast) and the *)
(* two renderers (format_current_weather, format_forecast).                *)
(*                                                                         *)
(* JSON documents are records.  A field of a document that the code reads  *)
(* with .get is modelled by its shape:                                     *)
(*   "absent"     the key is missing (the .get default applies)            *)
(*   "null"       the key is present and holds JSON null                   *)
(*   "object"     the key holds an object, whose fields have shapes too    *)
(*   "num", "str", "list"   the key holds a number, a string, a list       *)
(* Strings that the code splits are sequences of their segments.           *)
(* Numbers printed with one decimal are carried in tenths (x10), numbers   *)
(* printed with two decimals in hundredths (x100).                         *)
(***************************************************************************)
EXTENDS Integers, Sequences

VARIABLES
    pc,            \* position of the single thread of control
    location,      \* args.location, a sequence of characters
    forecast,      \* args.forecast
    station_code,  \* WeatherClient.station_code
    requests,      \* the GET requests issued so far, in order
    inflight,      \* number of requests awaiting their response
    responses,     \* the responses received so far, in order
    coordinates,   \* get_forecast: the coordinates list
    forecast_url,  \* get_forecast: the forecast reference
    data,          \* main: what the client operation returned
    stdout,        \* what was printed on standard output
    stderr,        \* what was printed on standard error
    exit_status    \* process exit status, -1 while running

vars == <<pc, location, forecast, station_code, requests, inflight, responses,
          coordinates, forecast_url, data, stdout, stderr, exit_status>>

-----------------------------------------------------------------------------
(* Bounds of the model *)

MaxLocLen == 5
MaxCoords == 3
MaxPeriods == 15
MaxCloudLayers == 2

(* Constants of the program *)

StationCodeLen == 4
PeriodLimit == 14

-----------------------------------------------------------------------------
(* Values *)

None == [kind |-> "None"]

Last(s) == s[Len(s)]

Min(a, b) == IF a < b THEN a ELSE b

Alphabet == <<"k", "m", "p", "r", "x", "y", "z">>

Upper(c) ==
    CASE c = "k" -> "K" [] c = "m" -> "M" [] c = "p" -> "P" [] c = "r" -> "R"
      [] c = "x" -> "X" [] c = "y" -> "Y" [] c = "z" -> "Z" [] OTHER -> c

\* str.upper()
upper(s) == [i \in 1..Len(s) |-> Upper(s[i])]

LowerCode(n) == [i \in 1..n |-> Alphabet[((i - 1) % Len(Alphabet)) + 1]]

Locations ==
    {LowerCode(n) : n \in 0..MaxLocLen} \cup {upper(LowerCode(n)) : n \in 0..MaxLocLen}

-----------------------------------------------------------------------------
(* Responses of the service *)

\* A request that raised requests.exceptions.RequestException (timeout,
\* connection error, non-success status, a body that is not JSON)
Failed(url) == [ok |-> FALSE, url |-> url]

Ok(url, body) == [ok |-> TRUE, url |-> url, body |-> body]

\* response.json() is JSON null, the object {} or an object with keys
NullBody(url) == [kind |-> "null", url |-> url]
EmptyBody(url) == [kind |-> "empty", url |-> url]

\* dict.get(key, default) on a parsed body: the shape stored under key
Get(doc, key) == IF doc.kind = "empty" THEN [shape |-> "absent"] ELSE doc[key]

CoordsOf(n) == [i \in 1..n |-> CASE i = 1 -> -121 [] i = 2 -> 36 [] OTHER -> 50 + i]

CoordinateFields ==
    {[shape |-> "absent"], [shape |-> "null"]}
        \cup {[shape |-> "list", list |-> CoordsOf(n)] : n \in 0..MaxCoords}

StationBodies ==
    {NullBody("station"), EmptyBody("station")}
        \cup {[kind |-> "object", url |-> "station", geometry |-> [shape |-> g]] :
                g \in {"absent", "null"}}
        \cup {[kind |-> "object", url |-> "station",
               geometry |-> [shape |-> "object", coordinates |-> c]] :
                c \in CoordinateFields}

ForecastRef == <<"https:", "", "api.weather.gov", "gridpoints", "MTR", "90,60", "forecast">>

ForecastFields ==
    {[shape |-> "absent"], [shape |-> "null"],
     [shape |-> "str", v |-> <<>>], [shape |-> "str", v |-> ForecastRef]}

PointsBodies ==
    {NullBody("points"), EmptyBody("points")}
        \cup {[kind |-> "object", url |-> "points", properties |-> [shape |-> p]] :
                p \in {"absent", "null"}}
        \cup {[kind |-> "object", url |-> "points",
               properties |-> [shape |-> "object", forecast |-> f]] :
                f \in ForecastFields}

-----------------------------------------------------------------------------
(* Python semantics used by the code *)

\* bool(x) for what a client operation returns
Truthy(x) == x.kind \notin {"None", "null", "empty"}

\* an exception that no handler of the program catches
Traceback(exc) == [msg |-> "Traceback", exc |-> exc]

-----------------------------------------------------------------------------
(* Observation documents *)

Absent == [shape |-> "absent"]
Null == [shape |-> "null"]
Num(n) == [shape |-> "num", v |-> n]
Str(segments) == [shape |-> "str", v |-> segments]

\* a measurement: {"value": ..., "unitCode": ...}
Measurement(value, unitCode) == [shape |-> "object", value |-> value, unitCode |-> unitCode]

DegC == Str(<<"wmoUnit", "degC">>)
DegF == Str(<<"wmoUnit", "degF">>)

\* x.get('value') where x = properties.get(name, {}):
\* None, a number, or AttributeError when x is None
ValueOf(field) ==
    CASE field.shape = "absent" -> [kind |-> "None"]
      [] field.shape = "null" -> [kind |-> "raise"]
      [] OTHER -> IF field.value.shape = "num"
                  THEN [kind |-> "num", v |-> field.value.v]
                  ELSE [kind |-> "None"]

\* x.get('unitCode', '').split(':')[-1]
UnitOf(field) ==
    CASE field.shape = "absent" -> [kind |-> "str", v |-> ""]
      [] field.shape = "null" -> [kind |-> "raise"]
      [] OTHER -> CASE field.unitCode.shape = "absent" -> [kind |-> "str", v |-> ""]
                    [] field.unitCode.shape = "null" -> [kind |-> "raise"]
                    [] OTHER -> [kind |-> "str", v |-> Last(field.unitCode.v)]

\* n / d rounded to the nearest integer, ties to even (d > 0)
DivRound(n, d) ==
    LET q == n \div d
        r == n % d
    IN  IF 2 * r > d \/ (2 * r = d /\ q % 2 = 1) THEN q + 1 ELSE q

NA == [fmt |-> "N/A"]

\* (c * 9/5) + 32 in tenths of a degree, c a whole number of degrees
Fahrenheit10(c) == c * 18 + 320

AllAbsent ==
    [shape |-> "object", station |-> Absent, timestamp |-> Absent,
     textDescription |-> Absent, temperature |-> Absent, dewpoint |-> Absent,
     windSpeed |-> Absent, windDirection |-> Absent, relativeHumidity |-> Absent,
     barometricPressure |-> Absent, visibility |-> Absent, windChill |-> Absent,
     heatIndex |-> Absent, cloudLayers |-> Absent, precipitationLastHour |-> Absent]

\* data.get('properties', {})
PropertiesOf(doc) ==
    LET p == Get(doc, "properties")
    IN  IF p.shape = "absent" THEN AllAbsent ELSE p

\* one element of the cloud layer list comprehension
CloudLayerStr(layer) ==
    [amount |-> IF layer.amount.shape = "absent" THEN "N/A" ELSE layer.amount.v,
     base |-> CASE layer.base.shape = "absent" -> [text |-> "N/A"]
                [] layer.base.value.shape = "num" -> [m |-> layer.base.value.v]
                [] OTHER -> [text |-> "None"]]

\* temp_str
TemperatureStr(temp_value, temp_unit) ==
    IF temp_value.kind = "num" /\ temp_unit.v = "degC"
    THEN [fmt |-> "F (C)", f10 |-> Fahrenheit10(temp_value.v), c10 |-> temp_value.v * 10]
    ELSE IF temp_value.kind = "num"
    THEN [fmt |-> "value unit", v10 |-> temp_value.v * 10, unit |-> temp_unit.v]
    ELSE NA

\* dewpoint_str
DewpointStr(dewpoint) ==
    IF dewpoint.kind = "num"
    THEN [fmt |-> "F (C)", f10 |-> Fahrenheit10(dewpoint.v), c10 |-> dewpoint.v * 10]
    ELSE NA

\* the two tests in the other order: heat index wins
FeelsLikeStrHeatFirst(wind_chill, heat_index) ==
    IF heat_index.kind = "num"
    THEN [fmt |-> "F (Heat Index)", f10 |-> Fahrenheit10(heat_index.v)]
    ELSE IF wind_chill.kind = "num"
    THEN [fmt |-> "F (Wind Chill)", f10 |-> Fahrenheit10(wind_chill.v)]
    ELSE [fmt |-> "None"]

\* feels_like_str; None when neither value is present
FeelsLikeStr(wind_chill, heat_index) ==
    IF wind_chill.kind = "num"
    THEN [fmt |-> "F (Wind Chill)", f10 |-> Fahrenheit10(wind_chill.v)]
    ELSE IF heat_index.kind = "num"
    THEN [fmt |-> "F (Heat Index)", f10 |-> Fahrenheit10(heat_index.v)]
    ELSE [fmt |-> "None"]

\* format_current_weather(data): the lines of the returned text, or the
\* exception the function raises
format_current_weather(doc) ==
    LET properties == PropertiesOf(doc)
        temp_value == ValueOf(properties.temperature)
        temp_unit == UnitOf(properties.temperature)
        wind_speed == ValueOf(properties.windSpeed)
        wind_dir == ValueOf(properties.windDirection)
        humidity == ValueOf(properties.relativeHumidity)
        dewpoint == ValueOf(properties.dewpoint)
        pressure == ValueOf(properties.barometricPressure)
        visibility == ValueOf(properties.visibility)
        wind_chill == ValueOf(properties.windChill)
        heat_index == ValueOf(properties.heatIndex)
        precip_last_hour == ValueOf(properties.precipitationLastHour)
        cloud_layers == properties.cloudLayers
        lookups == <<temp_value, temp_unit, wind_speed, wind_dir, humidity, dewpoint,
                     pressure, visibility, wind_chill, heat_index, precip_last_hour>>
        raises ==
            \/ properties.shape = "null"
            \/ properties.station.shape = "null"
            \/ \E i \in 1..Len(lookups) : lookups[i].kind = "raise"
            \/ /\ cloud_layers.shape = "list"
               /\ \E i \in 1..Len(cloud_layers.list) :
                      cloud_layers.list[i].base.shape = "null"
        station ==
            IF properties.station.shape = "absent" THEN "Unknown"
            ELSE Last(properties.station.v)
        timestamp ==
            CASE properties.timestamp.shape = "absent" -> "Unknown"
              [] properties.timestamp.shape = "null" -> "None"
              [] OTHER -> properties.timestamp.v
        temp_str == TemperatureStr(temp_value, temp_unit)
        description ==
            CASE properties.textDescription.shape = "absent" -> "N/A"
              [] properties.textDescription.shape = "null" -> "None"
              [] OTHER -> properties.textDescription.v
        wind_str ==
            IF wind_speed.kind = "num" /\ wind_dir.kind = "num"
            THEN [fmt |-> "km/h from", speed10 |-> wind_speed.v * 10, dir |-> wind_dir.v]
            ELSE NA
        humidity_str ==
            IF humidity.kind = "num" THEN [fmt |-> "%", v |-> humidity.v] ELSE NA
        dewpoint_str == DewpointStr(dewpoint)
        pressure_str ==
            IF pressure.kind = "num"
            THEN [fmt |-> "mb", v10 |-> DivRound(pressure.v, 10)]
            ELSE NA
        visibility_str ==
            IF visibility.kind = "num"
            THEN [fmt |-> "mi", v10 |-> DivRound(visibility.v * 1000, 160934)]
            ELSE NA
        feels_like_str == FeelsLikeStr(wind_chill, heat_index)
        cloud_str ==
            IF cloud_layers.shape = "list" /\ Len(cloud_layers.list) > 0
            THEN [fmt |-> "layers",
                  layers |-> [i \in 1..Len(cloud_layers.list) |->
                                 CloudLayerStr(cloud_layers.list[i])]]
            ELSE NA
        precip_str ==
            IF precip_last_hour.kind = "num"
            THEN [fmt |-> "mm", v100 |-> precip_last_hour.v * 100]
            ELSE NA
        head ==
            << [label |-> "Current Weather for", text |-> station],
               [label |-> "=", text |-> 40],
               [label |-> "Time", text |-> timestamp],
               [label |-> "Conditions", text |-> description],
               [label |-> "Temperature", text |-> temp_str] >>
        feels ==
            IF feels_like_str.fmt # "None"
            THEN << [label |-> "Feels Like", text |-> feels_like_str] >>
            ELSE << >>
        tail ==
            << [label |-> "Dewpoint", text |-> dewpoint_str],
               [label |-> "Wind", text |-> wind_str],
               [label |-> "Humidity", text |-> humidity_str],
               [label |-> "Pressure", text |-> pressure_str],
               [label |-> "Visibility", text |-> visibility_str],
               [label |-> "Cloud Layers", text |-> cloud_str],
               [label |-> "Precipitation (last hour)", text |-> precip_str] >>
    IN  IF raises
        THEN [kind |-> "raise", exc |-> "AttributeError"]
        ELSE [kind |-> "text", lines |-> head \o feels \o tail]

-----------------------------------------------------------------------------
(* Observation documents the service may return *)

StationRef == <<"https:", "", "api.weather.gov", "stations", "KMPR">>

TemperatureFields ==
    {Absent, Null, Measurement(Null, DegC)}
        \cup {Measurement(Num(v), u) : v \in {0, 100}, u \in {DegC, DegF, Absent}}

DewpointFields ==
    {Absent, Null, Measurement(Null, DegC)}
        \cup {Measurement(Num(10), u) : u \in {DegC, DegF}}

WindChillFields == {Absent, Null, Measurement(Null, DegC), Measurement(Num(-10), DegC)}

HeatIndexFields == {Absent, Null, Measurement(Null, DegC), Measurement(Num(40), DegC)}

CloudLayer(amount, base) == [amount |-> amount, base |-> base]

CloudLayersOf(n) ==
    [shape |-> "list",
     list |-> [i \in 1..n |->
                  IF i % 2 = 1
                  THEN CloudLayer(Str("FEW"), Measurement(Num(900 * i), Absent))
                  ELSE CloudLayer(Absent, Measurement(Null, Absent))]]

\* the fields no unit conversion depends on, all of one shape
OtherFields(shape) ==
    CASE shape = "absent" ->
           [station |-> Absent, timestamp |-> Absent, textDescription |-> Absent,
            windSpeed |-> Absent, windDirection |-> Absent,
            relativeHumidity |-> Absent, barometricPressure |-> Absent,
            visibility |-> Absent, cloudLayers |-> Absent,
            precipitationLastHour |-> Absent]
      [] shape = "null" ->
           [station |-> Null, timestamp |-> Null, textDescription |-> Null,
            windSpeed |-> Null, windDirection |-> Null,
            relativeHumidity |-> Null, barometricPressure |-> Null,
            visibility |-> Null, cloudLayers |-> Null,
            precipitationLastHour |-> Null]
      [] shape = "nullvalue" ->
           [station |-> Str(StationRef), timestamp |-> Str("2024-01-01T00:00:00+00:00"),
            textDescription |-> Str("Clear"),
            windSpeed |-> Measurement(Num(15), Absent),
            windDirection |-> Measurement(Null, Absent),
            relativeHumidity |-> Measurement(Null, Absent),
            barometricPressure |-> Measurement(Null, Absent),
            visibility |-> Measurement(Null, Absent),
            cloudLayers |-> CloudLayersOf(0),
            precipitationLastHour |-> Measurement(Null, Absent)]
      [] OTHER ->
           [station |-> Str(StationRef), timestamp |-> Str("2024-01-01T00:00:00+00:00"),
            textDescription |-> Str("Clear"),
            windSpeed |-> Measurement(Num(15), Absent),
            windDirection |-> Measurement(Num(270), Absent),
            relativeHumidity |-> Measurement(Num(45), Absent),
            barometricPressure |-> Measurement(Num(101320), Absent),
            visibility |-> Measurement(Num(16093), Absent),
            cloudLayers |-> CloudLayersOf(MaxCloudLayers),
            precipitationLastHour |-> Measurement(Num(2), Absent)]

OtherShapes == {"absent", "null", "nullvalue", "value"}

Observation(t, d, wc, hi, o) ==
    [kind |-> "object", url |-> "current",
     properties |->
         [shape |-> "object", station |-> o.station, timestamp |-> o.timestamp,
          textDescription |-> o.textDescription, temperature |-> t, dewpoint |-> d,
          windSpeed |-> o.windSpeed, windDirection |-> o.windDirection,
          relativeHumidity |-> o.relativeHumidity,
          barometricPressure |-> o.barometricPressure, visibility |-> o.visibility,
          windChill |-> wc, heatIndex |-> hi, cloudLayers |-> o.cloudLayers,
          precipitationLastHour |-> o.precipitationLastHour]]

CurrentBodies ==
    {NullBody("current"), EmptyBody("current")}
        \cup {[kind |-> "object", url |-> "current", properties |-> p] : p \in {Absent, Null}}
        \cup {Observation(t, d, Absent, Measurement(Num(40), DegC), OtherFields(o)) :
                t \in TemperatureFields, d \in DewpointFields, o \in OtherShapes}
        \cup {Observation(Measurement(Num(0), DegC), Measurement(Num(10), DegC),
                           wc, hi, OtherFields(o)) :
                wc \in WindChillFields, hi \in HeatIndexFields, o \in OtherShapes}

-----------------------------------------------------------------------------
(* Forecast documents *)

\* period.get(key, default) for a text field
TextOf(field, default) ==
    CASE field.shape = "absent" -> default
      [] field.shape = "null" -> "None"
      [] OTHER -> field.v

\* no slice: every period is shown
FirstPeriodsAll(periods) == periods

\* periods[:14]
FirstPeriods(periods) == SubSeq(periods, 1, Min(Len(periods), PeriodLimit))

\* the text appended to output for one period
PeriodBlock(period) ==
    LET name == TextOf(period.name, "Unknown")
        temp == IF period.temperature.shape = "num"
                THEN [n |-> period.temperature.v]
                ELSE [text |-> TextOf(period.temperature, "N/A")]
        temp_unit == TextOf(period.temperatureUnit, "F")
        short_forecast == TextOf(period.shortForecast, "N/A")
        detailed == period.detailedForecast
        lines == << [label |-> "name", text |-> name],
                    [label |-> "Temperature", temp |-> temp, unit |-> temp_unit],
                    [label |-> "short", text |-> short_forecast] >>
    IN  IF detailed.shape = "str" /\ detailed.v # ""
        THEN Append(lines, [label |-> "detailed", text |-> detailed.v])
        ELSE lines

\* format_forecast(data): the literal, the header and period blocks, or the
\* exception the function raises
format_forecast(doc) ==
    LET properties == Get(doc, "properties")
        periods ==
            IF properties.shape = "absent" THEN Absent ELSE properties.periods
        shown == FirstPeriods(periods.list)
    IN  IF properties.shape = "null"
        THEN [kind |-> "raise", exc |-> "AttributeError"]
        ELSE IF periods.shape # "list" \/ Len(periods.list) = 0
        THEN [kind |-> "literal", text |-> "No forecast data available"]
        ELSE IF \E i \in 1..Len(shown) : shown[i].shape = "null"
        THEN [kind |-> "raise", exc |-> "AttributeError"]
        ELSE [kind |-> "text", header |-> "Weather Forecast", divider |-> 40,
              blocks |-> [i \in 1..Len(shown) |-> PeriodBlock(shown[i])]]

(* Forecast documents the service may return *)

Period(i, style) ==
    CASE style = "full" ->
           [shape |-> "object", name |-> Str(100 - i), temperature |-> Num(60 + i),
            temperatureUnit |-> Str("F"), shortForecast |-> Str("Sunny"),
            detailedForecast |-> Str(IF i % 2 = 1 THEN "Sunny, with a high near 70." ELSE "")]
      [] OTHER ->
           [shape |-> "object", name |-> Str(i), temperature |-> Absent,
            temperatureUnit |-> Absent, shortForecast |-> Absent,
            detailedForecast |-> IF i % 2 = 1 THEN Absent ELSE Null]

\* n periods; with style "nulllast" the last one is JSON null
PeriodsOf(n, style) ==
    [shape |-> "list",
     list |-> [i \in 1..n |->
                  IF style = "nulllast" /\ i = n THEN Null ELSE Period(i, style)]]

PeriodsFields ==
    {Absent, Null}
        \cup {PeriodsOf(n, style) : n \in 0..MaxPeriods, style \in {"full", "sparse", "nulllast"}}

ForecastBodies ==
    {NullBody("forecast"), EmptyBody("forecast")}
        \cup {[kind |-> "object", url |-> "forecast", properties |-> p] : p \in {Absent, Null}}
        \cup {[kind |-> "object", url |-> "forecast",
               properties |-> [shape |-> "object", periods |-> f]] : f \in PeriodsFields}

-----------------------------------------------------------------------------
(* The program *)

Init ==
    /\ pc = "main"
    /\ location \in Locations
    /\ forecast \in BOOLEAN
    /\ station_code = <<>>
    /\ requests = <<>>
    /\ inflight = 0
    /\ responses = <<>>
    /\ coordinates = <<>>
    /\ forecast_url = <<>>
    /\ data = None
    /\ stdout = <<>>
    /\ stderr = <<>>
    /\ exit_status = -1

\* a length check that only rejects codes that are too short
InvalidStationCodeShort(loc) == Len(loc) < StationCodeLen

\* len(args.location) != 4
InvalidStationCode(loc) == Len(loc) # StationCodeLen

\* requests.get(...) is called: the request leaves, the caller blocks
Send(request, wait) ==
    /\ requests' = Append(requests, request)
    /\ inflight' = inflight + 1
    /\ pc' = wait

\* requests.get(...) returns or raises
Receive(r) ==
    /\ inflight' = inflight - 1
    /\ responses' = Append(responses, r)

\* an error path that tries the operation again instead of returning
ReturnErrorRetry(msg, caller) ==
    /\ stderr' = Append(stderr, [msg |-> msg])
    /\ data' = None
    /\ pc' = IF Len(requests) >= 4 THEN caller
             ELSE IF caller = "main_forecast" THEN "get_forecast"
             ELSE "get_current_weather"

\* print(..., file=sys.stderr); return None
ReturnError(msg, caller) ==
    /\ stderr' = Append(stderr, [msg |-> msg])
    /\ data' = None
    /\ pc' = caller

\* sys.exit(1)
Exit1 ==
    /\ exit_status' = 1
    /\ pc' = "exit"

\* an exception reaches the top level: traceback on stderr, status 1
Crash(exc) ==
    /\ stderr' = Append(stderr, Traceback(exc))
    /\ exit_status' = 1
    /\ pc' = "crash"

\* main, from parse_args to the choice of the operation
main_validate ==
    /\ pc = "main"
    /\ IF InvalidStationCode(location)
       THEN /\ stderr' = Append(stderr, [msg |-> "Error: Station code must be 4 characters"])
            /\ Exit1
            /\ UNCHANGED station_code
       ELSE /\ station_code' = upper(location)
            /\ pc' = IF forecast THEN "get_forecast" ELSE "get_current_weather"
            /\ UNCHANGED <<stderr, exit_status>>
    /\ UNCHANGED <<location, forecast, requests, inflight, responses, coordinates,
                   forecast_url, data, stdout>>

get_current_weather_request ==
    /\ pc = "get_current_weather"
    /\ Send([url |-> "current", station |-> station_code], "current_wait")
    /\ UNCHANGED <<location, forecast, station_code, responses, coordinates,
                   forecast_url, data, stdout, stderr, exit_status>>

get_current_weather_response ==
    /\ pc = "current_wait"
    /\ \E r \in {Failed("current")} \cup {Ok("current", b) : b \in CurrentBodies} :
          /\ Receive(r)
          /\ IF r.ok
             THEN /\ data' = r.body
                  /\ pc' = "main_current"
                  /\ UNCHANGED stderr
             ELSE ReturnError("Error fetching current weather", "main_current")
    /\ UNCHANGED <<location, forecast, station_code, requests, coordinates,
                   forecast_url, stdout, exit_status>>

\* main after client.get_current_weather() returned
main_current ==
    /\ pc = "main_current"
    /\ IF Truthy(data)
       THEN LET out == format_current_weather(data)
            IN  IF out.kind = "raise"
                THEN Crash(out.exc) /\ UNCHANGED stdout
                ELSE /\ stdout' = Append(stdout, out)
                     /\ exit_status' = 0
                     /\ pc' = "exit"
                     /\ UNCHANGED stderr
       ELSE Exit1 /\ UNCHANGED <<stdout, stderr>>
    /\ UNCHANGED <<location, forecast, station_code, requests, inflight, responses,
                   coordinates, forecast_url, data>>

\* station_data.get('geometry', {}).get('coordinates', []):
\* the list, or the exception raised when a .get or len meets None
CoordinatesOf(body) ==
    IF body.kind = "null" THEN [kind |-> "raise", exc |-> "AttributeError"]
    ELSE LET geometry == Get(body, "geometry")
         IN  CASE geometry.shape = "absent" -> [kind |-> "list", list |-> <<>>]
               [] geometry.shape = "null" -> [kind |-> "raise", exc |-> "AttributeError"]
               [] OTHER ->
                    CASE geometry.coordinates.shape = "absent" ->
                           [kind |-> "list", list |-> <<>>]
                      [] geometry.coordinates.shape = "null" ->
                           [kind |-> "raise", exc |-> "TypeError"]
                      [] OTHER -> [kind |-> "list", list |-> geometry.coordinates.list]

\* len(coordinates) < 2
TooFewCoordinates(coords) == Len(coords) < 2

\* points_data.get('properties', {}).get('forecast')
ForecastUrlOf(body) ==
    IF body.kind = "null" THEN [kind |-> "raise", exc |-> "AttributeError"]
    ELSE LET properties == Get(body, "properties")
         IN  CASE properties.shape = "absent" -> [kind |-> "None"]
               [] properties.shape = "null" -> [kind |-> "raise", exc |-> "AttributeError"]
               [] OTHER ->
                    IF properties.forecast.shape = "str"
                    THEN [kind |-> "str", v |-> properties.forecast.v]
                    ELSE [kind |-> "None"]

\* a test for None only: an empty reference passes
NoForecastUrlNoneOnly(url) == url.kind = "None"

\* not forecast_url
NoForecastUrl(url) == url.kind = "None" \/ url.v = <<>>

get_forecast_station_request ==
    /\ pc = "get_forecast"
    /\ Send([url |-> "station", station |-> station_code], "station_wait")
    /\ UNCHANGED <<location, forecast, station_code, responses, coordinates,
                   forecast_url, data, stdout, stderr, exit_status>>

\* from the return of the first requests.get to the coordinates
get_forecast_station_response ==
    /\ pc = "station_wait"
    /\ \E r \in {Failed("station")} \cup {Ok("station", b) : b \in StationBodies} :
          /\ Receive(r)
          /\ IF ~r.ok
             THEN /\ ReturnError("Error fetching forecast", "main_forecast")
                  /\ UNCHANGED <<coordinates, exit_status>>
             ELSE LET c == CoordinatesOf(r.body)
                  IN  IF c.kind = "raise"
                      THEN Crash(c.exc) /\ UNCHANGED <<coordinates, data>>
                      ELSE IF TooFewCoordinates(c.list)
                      THEN /\ ReturnError("Error: Could not determine station coordinates",
                                          "main_forecast")
                           /\ coordinates' = c.list
                           /\ UNCHANGED exit_status
                      ELSE /\ coordinates' = c.list
                           /\ pc' = "points"
                           /\ UNCHANGED <<data, stderr, exit_status>>
    /\ UNCHANGED <<location, forecast, station_code, requests, forecast_url, stdout>>

\* lon, lat = coordinates[0], coordinates[1]; the request names lat first
get_forecast_points_request ==
    /\ pc = "points"
    /\ Send([url |-> "points", lat |-> coordinates[2], lon |-> coordinates[1]],
            "points_wait")
    /\ UNCHANGED <<location, forecast, station_code, responses, coordinates,
                   forecast_url, data, stdout, stderr, exit_status>>

\* from the return of the second requests.get to the forecast URL
get_forecast_points_response ==
    /\ pc = "points_wait"
    /\ \E r \in {Failed("points")} \cup {Ok("points", b) : b \in PointsBodies} :
          /\ Receive(r)
          /\ IF ~r.ok
             THEN /\ ReturnError("Error fetching forecast", "main_forecast")
                  /\ UNCHANGED <<forecast_url, exit_status>>
             ELSE LET u == ForecastUrlOf(r.body)
                  IN  IF u.kind = "raise"
                      THEN Crash(u.exc) /\ UNCHANGED <<forecast_url, data>>
                      ELSE IF NoForecastUrl(u)
                      THEN /\ ReturnError("Error: Could not determine forecast URL",
                                          "main_forecast")
                           /\ UNCHANGED <<forecast_url, exit_status>>
                      ELSE /\ forecast_url' = u.v
                           /\ pc' = "forecast"
                           /\ UNCHANGED <<data, stderr, exit_status>>
    /\ UNCHANGED <<location, forecast, station_code, requests, coordinates, stdout>>

get_forecast_forecast_request ==
    /\ pc = "forecast"
    /\ Send([url |-> "forecast", ref |-> forecast_url], "forecast_wait")
    /\ UNCHANGED <<location, forecast, station_code, responses, coordinates,
                   forecast_url, data, stdout, stderr, exit_status>>

get_forecast_forecast_response ==
    /\ pc = "forecast_wait"
    /\ \E r \in {Failed("forecast")} \cup {Ok("forecast", b) : b \in ForecastBodies} :
          /\ Receive(r)
          /\ IF r.ok
             THEN /\ data' = r.body
                  /\ pc' = "main_forecast"
                  /\ UNCHANGED stderr
             ELSE ReturnError("Error fetching forecast", "main_forecast")
    /\ UNCHANGED <<location, forecast, station_code, requests, coordinates,
                   forecast_url, stdout, exit_status>>

\* main after client.get_forecast() returned
main_forecast ==
    /\ pc = "main_forecast"
    /\ IF Truthy(data)
       THEN LET out == format_forecast(data)
            IN  IF out.kind = "raise"
                THEN Crash(out.exc) /\ UNCHANGED stdout
                ELSE /\ stdout' = Append(stdout, out)
                     /\ exit_status' = 0
                     /\ pc' = "exit"
                     /\ UNCHANGED stderr
       ELSE Exit1 /\ UNCHANGED <<stdout, stderr>>
    /\ UNCHANGED <<location, forecast, station_code, requests, inflight, responses,
                   coordinates, forecast_url, data>>

Next ==
    \/ main_validate
    \/ get_current_weather_request
    \/ get_current_weather_response
    \/ main_current
    \/ get_forecast_station_request
    \/ get_forecast_station_response
    \/ get_forecast_points_request
    \/ get_forecast_points_response
    \/ get_forecast_forecast_request
    \/ get_forecast_forecast_response
    \/ main_forecast

Spec == Init /\ [][Next]_vars

\* every step of the single thread completes: a request ends within its
\* timeout, and nothing else can delay the thread
FairSpec == Spec /\ WF_vars(Next)

Terminated == pc \in {"exit", "crash"}

-----------------------------------------------------------------------------
(* What the responses received so far contain, read off the documents *)

\* a station-metadata response with at least two coordinate components
HasTwoCoordinates(r) ==
    /\ r.ok
    /\ r.body.kind = "object"
    /\ r.body.geometry.shape = "object"
    /\ r.body.geometry.coordinates.shape = "list"
    /\ Len(r.body.geometry.coordinates.list) >= 2

\* a point-lookup response with a non-empty forecast reference
HasForecastRef(r) ==
    /\ r.ok
    /\ r.body.kind = "object"
    /\ r.body.properties.shape = "object"
    /\ r.body.properties.forecast.shape = "str"
    /\ r.body.properties.forecast.v # <<>>

\* the step that response j answers did not yield what the next step needs
StepFailed(j) ==
    \/ ~responses[j].ok
    \/ responses[j].url = "station" /\ ~HasTwoCoordinates(responses[j])
    \/ responses[j].url = "points" /\ ~HasForecastRef(responses[j])

HasMessage(msg) == \E i \in 1..Len(stderr) : stderr[i].msg = msg

-----------------------------------------------------------------------------
(* C1: in get_forecast the point-lookup request is issued only after the    *)
(* station-metadata request succeeded with at least two coordinate          *)
(* components, the forecast request only after the point-lookup request     *)
(* succeeded with a forecast reference, and after a failed step no later    *)
(* request is issued.                                                       *)
C1_RequestsGuarded ==
    forecast =>
        /\ \A i \in 1..Len(requests) :
              /\ requests[i].url = "station" => i = 1
              /\ requests[i].url = "points" =>
                    /\ i = 2
                    /\ requests[1].url = "station"
                    /\ HasTwoCoordinates(responses[1])
              /\ requests[i].url = "forecast" =>
                    /\ i = 3
                    /\ requests[2].url = "points"
                    /\ Len(responses) >= 2
                    /\ HasForecastRef(responses[2])
        /\ \A j \in 1..Len(responses) : StepFailed(j) => Len(requests) = j

\* all three requests of get_forecast have been issued
C1_Witness == forecast /\ pc = "forecast_wait" /\ Len(requests) = 3

(* C3: a station code whose length is not 4 ends the program, in either     *)
(* mode, with the length error on standard error, status 1 and no request.  *)
C3_BadLengthNoRequest ==
    Len(location) # 4 =>
        /\ requests = <<>>
        /\ pc \in {"main", "exit"}
        /\ pc = "exit" =>
              /\ exit_status = 1
              /\ stderr = << [msg |-> "Error: Station code must be 4 characters"] >>
              /\ stdout = <<>>

\* a five character code was rejected in forecast mode
C3_Witness == Len(location) = 5 /\ forecast /\ pc = "exit" /\ exit_status = 1

\* no step of the chain has been requested twice
NoStepTwice ==
    \A i, j \in 1..Len(requests) : requests[i].url = requests[j].url => i = j

C6_Sequential ==
    /\ inflight <= 1
    /\ NoStepTwice
    /\ Len(requests) <= 4
    /\ Terminated => (Len(requests) = 0 <=> Len(location) # 4)

(* C6, as amended: every invocation performs at most four network requests *)
(* (none when the station code is not 4 characters long, at least one      *)
(* otherwise), issued one at a time and no step twice, and then terminates. *)
C6_RequestsThenTerminates == []C6_Sequential /\ <>Terminated

\* an invocation that ended after performing the three requests of a forecast
C6_Witness == Terminated /\ Len(requests) = 3 /\ inflight = 0 /\ exit_status = 0

(* C6, as stated: every invocation performs between one and four network   *)
(* requests, one at a time and no step twice, before it terminates.         *)
C6_AsStated ==
    /\ inflight <= 1
    /\ NoStepTwice
    /\ Terminated => Len(requests) \in 1..4

-----------------------------------------------------------------------------
\* the numeric value of a measurement of the observation main rendered, as a
\* sequence of zero or one number
Observed(name) ==
    LET p == Get(data, "properties")
    IN  IF p.shape = "object" /\ p[name].shape = "object" /\ p[name].value.shape = "num"
        THEN << p[name].value.v >>
        ELSE << >>

IsFeelsLike(line) == line.label = "Feels Like"

\* the observation was rendered and printed
Rendered == ~forecast /\ stdout # <<>>

(* C7: the rendered observation has a Feels-Like line with the wind-chill   *)
(* string when wind chill is present (heat index present or not), with the  *)
(* heat-index string when only heat index is present, and no Feels-Like     *)
(* line at all when neither is present.                                     *)
C7_FeelsLikeSelection ==
    Rendered =>
        LET wc == Observed("windChill")
            hi == Observed("heatIndex")
            feels == SelectSeq(stdout[1].lines, IsFeelsLike)
        IN  /\ wc # <<>> =>
                  feels = << [label |-> "Feels Like",
                              text |-> [fmt |-> "F (Wind Chill)",
                                        f10 |-> (wc[1] * 90) \div 5 + 320]] >>
            /\ wc = <<>> /\ hi # <<>> =>
                  feels = << [label |-> "Feels Like",
                              text |-> [fmt |-> "F (Heat Index)",
                                        f10 |-> (hi[1] * 90) \div 5 + 320]] >>
            /\ wc = <<>> /\ hi = <<>> => feels = << >>

\* both values present, and the line shown is the wind-chill one
C7_Witness ==
    /\ Rendered
    /\ Observed("windChill") # <<>>
    /\ Observed("heatIndex") # <<>>
    /\ \E i \in 1..Len(stdout[1].lines) :
          /\ stdout[1].lines[i].label = "Feels Like"
          /\ stdout[1].lines[i].text.fmt = "F (Wind Chill)"

-----------------------------------------------------------------------------
\* the periods of the forecast document main received, <<>> if it has no list
ReceivedPeriods ==
    IF data.kind # "object" THEN << >>
    ELSE LET p == Get(data, "properties")
         IN  IF p.shape = "object" /\ p.periods.shape = "list" THEN p.periods.list
             ELSE << >>

(* C8: for a forecast document with n >= 1 periods the renderer's output    *)
(* has exactly min(n, 14) period blocks, block i being that of period i of  *)
(* the document; no later period appears.                                   *)
C8_FirstFourteenInOrder ==
    LET n == Len(ReceivedPeriods)
        shown == IF n < 14 THEN n ELSE 14
    IN  (/\ forecast
         /\ Terminated
         /\ n >= 1
         /\ \A i \in 1..shown : ReceivedPeriods[i].shape = "object")
        => /\ Len(stdout) = 1
           /\ stdout[1].kind = "text"
           /\ Len(stdout[1].blocks) = shown
           /\ \A i \in 1..shown :
                 stdout[1].blocks[i][1] =
                     [label |-> "name", text |-> ReceivedPeriods[i].name.v]

\* a document with more than 14 periods was rendered
C8_Witness ==
    /\ forecast
    /\ Len(ReceivedPeriods) > 14
    /\ Len(stdout) = 1
    /\ Len(stdout[1].blocks) = 14

-----------------------------------------------------------------------------
\* the station-metadata response has arrived and carries no two coordinates
StationLacksCoordinates ==
    /\ forecast
    /\ Len(responses) >= 1
    /\ responses[1].ok
    /\ ~HasTwoCoordinates(responses[1])

(* C2: when the station metadata lacks geometry or coordinates, get_forecast *)
(* fails with the resolution failure (its error message, no document) and    *)
(* issues neither the point-lookup nor the forecast request.                 *)
C2_NoCoordinatesFails ==
    StationLacksCoordinates =>
        /\ Len(requests) = 1
        /\ data = None
        /\ HasMessage("Error: Could not determine station coordinates")
        /\ pc \in {"main_forecast", "exit"}
        /\ stdout = <<>>

-----------------------------------------------------------------------------
\* every request of the selected mode succeeded and the last one yielded a
\* JSON document
ChainSucceeded ==
    /\ Len(responses) = (IF forecast THEN 3 ELSE 1)
    /\ \A i \in 1..Len(responses) : responses[i].ok
    /\ responses[Len(responses)].body.kind \in {"empty", "object"}

\* a request failed in transport, or a response lacked the field the next
\* step needs
ChainFailed == \E j \in 1..Len(responses) : StepFailed(j)

(* C4: the exit status is 0 whenever the resolution chain succeeds; it is 1  *)
(* only when the station code is not 4 characters long or the chain failed,  *)
(* and every exit with status 1 comes with a message on standard error.      *)
C4_ExitStatus ==
    Terminated =>
        /\ ChainSucceeded => exit_status = 0
        /\ exit_status = 1 =>
              /\ Len(location) # 4 \/ ChainFailed
              /\ stderr # <<>>

-----------------------------------------------------------------------------
(* C5: whatever the responses, an invocation ends in a clean exit: status 0  *)
(* with rendered output, or status 1 with a handled failure; never with an   *)
(* unhandled exception.                                                      *)
C5_NoCrash ==
    Terminated =>
        /\ pc = "exit"
        /\ exit_status = 0 => stdout # <<>>
        /\ exit_status \in {0, 1}

-----------------------------------------------------------------------------
\* the last segment of the unitCode of a measurement of the rendered
\* observation, "" when there is none
ObservedUnit(name) ==
    LET p == Get(data, "properties")
    IN  IF p.shape = "object" /\ p[name].shape = "object" /\ p[name].unitCode.shape = "str"
        THEN p[name].unitCode.v[Len(p[name].unitCode.v)]
        ELSE ""

LineOf(label) ==
    LET i == CHOOSE k \in 1..Len(stdout[1].lines) : stdout[1].lines[k].label = label
    IN  stdout[1].lines[i].text

(* C9: a temperature or dewpoint value is rendered as a converted           *)
(* "F (C)" pair only when the unit code of that field says Celsius.         *)
C9_ConvertOnlyCelsius ==
    Rendered =>
        /\ LineOf("Temperature").fmt = "F (C)" => ObservedUnit("temperature") = "degC"
        /\ LineOf("Dewpoint").fmt = "F (C)" => ObservedUnit("dewpoint") = "degC"

-----------------------------------------------------------------------------
\* the client operation is over: it returned to main or raised
OperationOver ==
    /\ Len(responses) >= 1
    /\ pc \in {"main_current", "main_forecast", "exit", "crash"}

FinalStep == IF forecast THEN "forecast" ELSE "current"

(* C10: the client operation ends either with the complete document of its  *)
(* final request or with the failure signal (None and an error message); it *)
(* never hands back an intermediate document, and nothing is printed on     *)
(* standard output when it failed.                                          *)
C10_AllOrNothing ==
    OperationOver =>
        \/ /\ data = None
           /\ \E i \in 1..Len(stderr) : stderr[i].msg # "Traceback"
           /\ stdout = <<>>
        \/ /\ data.kind # "None"
           /\ responses[Len(responses)].url = FinalStep
           /\ responses[Len(responses)].ok
           /\ data = responses[Len(responses)].body

====
